---- MODULE Spec2Model ----
(***************************************************************************)
(* Model of the IPO dashboard service: src/app.py (Flask handlers, the     *)
(* process-wide ipo_cache, parse_analysis_sections) and src/start.py (the  *)
(* dashboard scraper and the analysis pipeline workers).                   *)
(*                                                                         *)
(* Python values are modelled as follows.                                  *)
(*   str            a sequence of one-character strings                    *)
(*   None / a value the empty sequence << >> / the one-element <<v>>       *)
(*   list, tuple    a sequence (Python index i is TLA+ index i + 1)        *)
(*   dict           a function; its key set is the DOMAIN                  *)
(*   datetime       whole seconds since the process started                *)
(***************************************************************************)
EXTENDS Integers, Sequences, FiniteSets, TLC

VARIABLES
    ipo_cache,   \* app.py:20-25, the process-wide cache dict
    now,         \* the wall clock read by datetime.now(), in seconds
    steps,       \* number of requests and clock advances so far (bounded)
    last,        \* observation of the last completed request (<< >> if none)
    prev,        \* the successful analyze request before `last`, no refresh since
    dropped,     \* keys discarded by the latest refresh and not requested since
    pc,          \* per overlapping list-read request: position in get_cached_ipos
    loc,         \* per overlapping list-read request: its local variables
    lastWriter,  \* the request that last executed app.py:39 (<< >> if none)
    s_in,        \* a dashboard page handed to the Dashboard Extractor
    s_out,       \* what scrape_ipo_dashboard returned for s_in (<< >> before)
    p_in,        \* the lines of an analysis text handed to the Section Parser
    p_out        \* what parse_analysis_sections returned for p_in (<< >> before)

vars == <<ipo_cache, now, steps, last, prev, dropped, pc, loc, lastWriter,
          s_in, s_out, p_in, p_out>>

serverVars == <<ipo_cache, now, steps, last, prev, dropped>>
concVars == <<pc, loc, lastWriter>>
pureVars == <<s_in, s_out, p_in, p_out>>

----------------------------------------------------------------------------
(* Bounds of the model.                                                    *)

MaxSteps == 3
MaxIndex == 2
MaxRows == 3
MaxLines == 3
NumRequests == 2
MaxConcTicks == 1

(* Program constants.                                                      *)

FRESH_SECONDS == 3600
DAY_SECONDS == 86400

----------------------------------------------------------------------------
(* Python values.                                                          *)

None == << >>
Some(v) == <<v>>
IsNone(o) == o = << >>
Truthy(s) == Len(s) > 0

RECURSIVE SeqsUpTo(_, _)
SeqsUpTo(S, n) ==
    IF n = 0 THEN {<< >>}
    ELSE LET shorter == SeqsUpTo(S, n - 1)
         IN shorter \cup {Append(q, x) : q \in {r \in shorter : Len(r) = n - 1}, x \in S}

Whitespace == {" ", "\t", "\n"}

RECURSIVE LStrip(_)
LStrip(s) ==
    IF s # << >> /\ Head(s) \in Whitespace THEN LStrip(Tail(s)) ELSE s

RECURSIVE RStrip(_)
RStrip(s) ==
    IF s # << >> /\ s[Len(s)] \in Whitespace
    THEN RStrip(SubSeq(s, 1, Len(s) - 1)) ELSE s

\* str.strip()
Strip(s) == RStrip(LStrip(s))

LowerChar(c) ==
    CASE c = "C" -> "c" [] c = "U" -> "u" [] c = "R" -> "r" [] c = "E" -> "e"
      [] c = "N" -> "n" [] c = "T" -> "t" [] c = "P" -> "p" [] c = "O" -> "o"
      [] c = "M" -> "m" [] c = "I" -> "i" [] c = "G" -> "g" [] c = "D" -> "d"
      [] c = "L" -> "l" [] c = "S" -> "s"
      [] OTHER -> c

\* str.lower()
Lower(s) == [i \in 1..Len(s) |-> LowerChar(s[i])]

\* str.startswith(p), str.endswith(p)
StartsWith(s, p) == Len(s) >= Len(p) /\ SubSeq(s, 1, Len(p)) = p
EndsWith(s, p) == Len(s) >= Len(p) /\ SubSeq(s, Len(s) - Len(p) + 1, Len(s)) = p

\* str.replace(c, '') for a one-character c
RECURSIVE RemoveChar(_, _)
RemoveChar(s, c) ==
    IF s = << >> THEN << >>
    ELSE IF Head(s) = c THEN RemoveChar(Tail(s), c)
         ELSE <<Head(s)>> \o RemoveChar(Tail(s), c)

\* str.split('\n'): always at least one piece
RECURSIVE SplitLines(_)
SplitLines(s) ==
    IF \A i \in 1..Len(s) : s[i] # "\n" THEN <<s>>
    ELSE LET k == CHOOSE i \in 1..Len(s) :
                      s[i] = "\n" /\ \A j \in 1..(i - 1) : s[j] # "\n"
         IN <<SubSeq(s, 1, k - 1)>> \o SplitLines(SubSeq(s, k + 1, Len(s)))

\* '\n'.join(parts)
RECURSIVE JoinLines(_)
JoinLines(parts) ==
    IF parts = << >> THEN << >>
    ELSE IF Len(parts) = 1 THEN parts[1]
         ELSE parts[1] \o <<"\n">> \o JoinLines(Tail(parts))

----------------------------------------------------------------------------
(* start.py: scrape_ipo_dashboard, the Dashboard Extractor.                *)

CURRENT == <<"c", "u", "r", "r", "e", "n", "t">>
UPCOMING == <<"u", "p", "c", "o", "m", "i", "n", "g">>
BASE_URL == <<"https://www.chittorgarh.com">>

\* cells[0].find('a'): no anchor, an anchor without href, an anchor with href
NoAnchor == [found |-> FALSE, has_href |-> FALSE, href |-> << >>]
BareAnchor == [found |-> TRUE, has_href |-> FALSE, href |-> << >>]
Anchor(h) == [found |-> TRUE, has_href |-> TRUE, href |-> h]

Cell(t, a) == [text |-> t, a |-> a]

\* a <tr> with n <td> cells: the name cell first, the status cell fourth
Row(n, name, link, status) ==
    [i \in 1..n |-> IF i = 1 THEN Cell(name, link)
                    ELSE IF i = 4 THEN Cell(status, NoAnchor)
                    ELSE Cell(<<"x">>, NoAnchor)]

Listing(cells) ==
    [name |-> Strip(cells[1].text), url |-> BASE_URL \o cells[1].a.href]

\* RowStep with insert(0, ...) in place of append(...)
RowStepPrepend(acc, cells) ==
    IF Len(cells) >= 4
    THEN LET status == Strip(cells[4].text)
             link_tag == cells[1].a
         IN IF Lower(status) = CURRENT
            THEN IF link_tag.found /\ link_tag.has_href
                 THEN <<<<Listing(cells)>> \o acc[1], acc[2]>>
                 ELSE acc
            ELSE IF Lower(status) = UPCOMING
                 THEN IF link_tag.found /\ link_tag.has_href
                      THEN <<acc[1], <<Listing(cells)>> \o acc[2]>>
                      ELSE acc
                 ELSE acc
    ELSE acc

\* start.py:83-109, one iteration of `for row in rows` on acc = <<current, upcoming>>
RowStep(acc, cells) ==
    IF Len(cells) >= 4
    THEN LET status == Strip(cells[4].text)
             link_tag == cells[1].a
         IN IF Lower(status) = CURRENT
            THEN IF link_tag.found /\ link_tag.has_href
                 THEN <<Append(acc[1], Listing(cells)), acc[2]>>
                 ELSE acc
            ELSE IF Lower(status) = UPCOMING
                 THEN IF link_tag.found /\ link_tag.has_href
                      THEN <<acc[1], Append(acc[2], Listing(cells))>>
                      ELSE acc
                 ELSE acc
    ELSE acc

\* start.py:45-46 and 82: the loop over the rows, from two empty lists
RECURSIVE RowLoop(_, _)
RowLoop(acc, rows) ==
    IF rows = << >> THEN acc ELSE RowLoop(RowStep(acc, Head(rows)), Tail(rows))

\* A dashboard page as the scraper meets it:
\*   driver  webdriver.Chrome() could be constructed        (start.py:55)
\*   waited  the heading appeared within the 20 s wait      (start.py:62-64)
\*   header  soup.find('h2', ...) found the heading         (start.py:70)
\*   table   find_next('table') found a table               (start.py:75)
\*   tbody   the table has a <tbody>                        (start.py:80)
Page(driver, waited, header, table, tbody, rows) ==
    [driver |-> driver, waited |-> waited, header |-> header,
     table |-> table, tbody |-> tbody, rows |-> rows]

OkPage(rows) == Page(TRUE, TRUE, TRUE, TRUE, TRUE, rows)

\* The value scrape_ipo_dashboard returns, or the exception it raises.
Returned(v) == [raised |-> FALSE, value |-> v]
Raised == [raised |-> TRUE, value |-> << >>]

scrape_ipo_dashboard(page) ==
    IF ~page.driver THEN Raised                 \* start.py:55, outside the try
    ELSE IF ~page.waited THEN Returned(<< >>)   \* TimeoutException -> 118-120
    ELSE IF ~page.header THEN Returned(<< >>)   \* start.py:71-73
    ELSE IF ~page.table THEN Returned(<< >>)    \* start.py:76-78
    ELSE IF ~page.tbody THEN Returned(<< >>)    \* AttributeError -> 118-120
    ELSE Returned(RowLoop(<<<< >>, << >>>>, page.rows))   \* start.py:116

----------------------------------------------------------------------------
(* app.py: parse_analysis_sections, the Section Parser.                    *)

STARS == <<"*", "*">>
COLON_STARS == <<":", "*", "*">>
DigitPrefixes == {<<d, ".">> : d \in {"1", "2", "3", "4", "5", "6"}}

\* dict[key] = value
DictPut(d, key, value) ==
    [k \in (DOMAIN d) \cup {key} |-> IF k = key THEN value ELSE d[k]]

EmptyDict == << >>

\* app.py:58-59, the test for a section header
IsHeader(line) ==
    \/ StartsWith(line, STARS) /\ EndsWith(line, COLON_STARS)
    \/ \E p \in DigitPrefixes : StartsWith(line, p)

\* app.py:66-68, the title of a section header
Title(line) ==
    LET t == Strip(RemoveChar(RemoveChar(line, "*"), ":"))
    IN IF \E p \in DigitPrefixes : StartsWith(t, p)
       THEN Strip(SubSeq(t, 3, Len(t)))
       ELSE t

\* `if current_section:` is false for None and for the empty string
SectionOpen(current_section) ==
    ~IsNone(current_section) /\ Truthy(current_section[1])

\* app.py:62-63 and 74-75
Flush(st) ==
    IF SectionOpen(st.current_section)
    THEN DictPut(st.sections, st.current_section[1], JoinLines(st.current_content))
    ELSE st.sections

\* app.py:52-71, one iteration of `for line in lines`
LineStep(st, raw) ==
    LET line == Strip(raw)
    IN IF ~Truthy(line) THEN st
       ELSE IF IsHeader(line)
            THEN [sections |-> Flush(st),
                  current_section |-> Some(Title(line)),
                  current_content |-> << >>]
            ELSE [st EXCEPT !.current_content = Append(@, line)]

RECURSIVE LineLoop(_, _)
LineLoop(st, lines) ==
    IF lines = << >> THEN st ELSE LineLoop(LineStep(st, Head(lines)), Tail(lines))

\* app.py:43-77
parse_analysis_sections(analysis_text) ==
    Flush(LineLoop([sections |-> EmptyDict,
                    current_section |-> None,
                    current_content |-> << >>],
                   SplitLines(analysis_text)))

----------------------------------------------------------------------------
(* start.py: the analysis pipeline workers.                                *)

\* A detail page as the Renderer meets it: render is "ok" (page_source is
\* returned), "timeout" (TimeoutException) or "error" (any other exception);
\* main says whether BeautifulSoup finds <div id="main">, text is the text
\* aggregated from its h2/h3 sections (empty when it has none).
Detail(render, main, text) == [render |-> render, main |-> main, text |-> text]

\* start.py:127-146
get_page_source_with_selenium(detail) ==
    IF detail.render = "error" THEN Raised
    ELSE IF detail.render = "timeout" THEN Returned(None)
    ELSE Returned(Some([main |-> detail.main, text |-> detail.text]))

\* start.py:148-163
parse_and_aggregate_data(html_content) ==
    IF ~html_content.main THEN None ELSE Some(Strip(html_content.text))

API_ERROR == <<"An error occurred while communicating with the Google AI API: ">>

\* The LLM call: ok with the response text, or an exception with its message.
Llm(ok, text) == [ok |-> ok, text |-> text]

\* start.py:165-186
get_ipo_analysis_with_gemini(ipo_data_text, llm) ==
    IF llm.ok THEN Strip(llm.text) ELSE API_ERROR \o llm.text

----------------------------------------------------------------------------
(* app.py: the cache and get_cached_ipos.                                  *)

EmptyCache ==
    [current_ipos |-> << >>, upcoming_ipos |-> << >>,
     last_updated |-> None, analyses |-> EmptyDict]

\* timedelta.seconds: the seconds field of the normalized difference, 0..86399
TimedeltaSeconds(d) == d % DAY_SECONDS

\* app.py:32-33
IsStale(cache, current_time) ==
    \/ IsNone(cache.last_updated)
    \/ TimedeltaSeconds(current_time - cache.last_updated[1]) > FRESH_SECONDS

\* `a, b = value`: ValueError unless value has exactly two items
Unpacks(value) == Len(value) = 2

\* app.py:37
WriteCurrent(cache, current_ipos) ==
    [cache EXCEPT !.current_ipos =
        IF Truthy(current_ipos) THEN current_ipos ELSE << >>]

\* app.py:38 as `if upcoming_ipos: ipo_cache['upcoming_ipos'] = upcoming_ipos`
WriteUpcomingIfAny(cache, upcoming_ipos) ==
    IF Truthy(upcoming_ipos)
    THEN [cache EXCEPT !.upcoming_ipos = upcoming_ipos]
    ELSE cache

\* app.py:38
WriteUpcoming(cache, upcoming_ipos) ==
    [cache EXCEPT !.upcoming_ipos =
        IF Truthy(upcoming_ipos) THEN upcoming_ipos ELSE << >>]

\* app.py:39
WriteTime(cache, current_time) ==
    [cache EXCEPT !.last_updated = Some(current_time)]

\* app.py:37-39, run without interruption
Store(cache, value, current_time) ==
    WriteTime(WriteUpcoming(WriteCurrent(cache, value[1]), value[2]), current_time)

\* app.py:27-41.  The result: raised (an exception left the function), the
\* cache afterwards, the lists returned, and what was done on the way.
get_cached_ipos(cache, current_time, page) ==
    IF IsStale(cache, current_time)
    THEN LET r == scrape_ipo_dashboard(page)
         IN IF r.raised \/ ~Unpacks(r.value)
            THEN [raised |-> TRUE, cache |-> cache, value |-> << >>,
                  scrapes |-> 1, scrape_ret |-> Some(r), page |-> Some(page)]
            ELSE LET c == Store(cache, r.value, current_time)
                 IN [raised |-> FALSE, cache |-> c,
                     value |-> <<c.current_ipos, c.upcoming_ipos>>,
                     scrapes |-> 1, scrape_ret |-> Some(r), page |-> Some(page)]
    ELSE [raised |-> FALSE, cache |-> cache,
          value |-> <<cache.current_ipos, cache.upcoming_ipos>>,
          scrapes |-> 0, scrape_ret |-> None, page |-> None]

----------------------------------------------------------------------------
(* app.py: the request handlers.  A handler is an operator from the cache, *)
(* the clock and what the outside world answers to the cache afterwards    *)
(* (cache) and the observation of the request (obs).                       *)

ERR_TYPE == "Invalid IPO type. Must be \"current\" or \"upcoming\""
ERR_RANGE == "IPO index out of range"
ERR_RENDER == "Could not retrieve IPO details page"
ERR_PARSE == "Could not parse IPO data from the page"
ERR_EXCEPTION == "str(e)"

\* What is observed of one request: the request, the response, the cache
\* before it, and the calls it made to the scraper and the pipeline.
Obs(op, ipo_type, ipo_index, pre, time, g) ==
    [op |-> op, ipo_type |-> ipo_type, ipo_index |-> ipo_index,
     pre |-> pre, time |-> time,
     status |-> 200, error |-> "", body |-> None, key |-> None,
     raised |-> g.raised, scrapes |-> g.scrapes, scrape_ret |-> g.scrape_ret,
     page |-> g.page,
     renders |-> 0, render_ret |-> None, extracts |-> 0, extract_ret |-> None,
     summaries |-> 0, llm |-> None, from_cache |-> FALSE, was_dropped |-> FALSE]

Fail(o, status, error) == [o EXCEPT !.status = status, !.error = error]

\* app.py:84-102
get_ipos(cache, time, page) ==
    LET g == get_cached_ipos(cache, time, page)
        o == Obs("ipos", "", 0, cache, time, g)
    IN IF g.raised
       THEN [cache |-> g.cache, obs |-> Fail(o, 500, ERR_EXCEPTION)]
       ELSE [cache |-> g.cache,
             obs |-> [o EXCEPT !.body =
                         Some([current_ipos |-> g.value[1],
                               upcoming_ipos |-> g.value[2],
                               last_updated |-> g.cache.last_updated])]]

\* app.py:187-190 with the analyses kept
ClearedKeepingAnalyses(cache) ==
    [cache EXCEPT !.current_ipos = << >>, !.upcoming_ipos = << >>,
                  !.last_updated = None]

\* app.py:187-190
Cleared(cache) ==
    [cache EXCEPT !.current_ipos = << >>, !.upcoming_ipos = << >>,
                  !.last_updated = None, !.analyses = EmptyDict]

\* app.py:183-205
refresh_ipos(cache, time, page) ==
    LET g == get_cached_ipos(Cleared(cache), time, page)
        o == Obs("refresh", "", 0, cache, time, g)
    IN IF g.raised
       THEN [cache |-> g.cache, obs |-> Fail(o, 500, ERR_EXCEPTION)]
       ELSE [cache |-> g.cache,
             obs |-> [o EXCEPT !.body =
                         Some([current_count |-> Len(g.value[1]),
                               upcoming_count |-> Len(g.value[2])])]]

\* app.py:130, f"{ipo_type}_{ipo_index}_{ipo['name']}"
IpoKey(ipo_type, ipo_index, ipo) ==
    <<ipo_type, "_", ToString(ipo_index), "_">> \o ipo.name

\* app.py:133 with the lookup always missing
IsCachedNever(cache, ipo_key) == FALSE

\* app.py:133
IsCached(cache, ipo_key) == ipo_key \in DOMAIN cache.analyses

\* app.py:169 as `if not analysis_text.startswith("An error occurred"): ...`
StoreAnalysisUnlessError(cache, ipo_key, analysis_data) ==
    IF StartsWith(analysis_data.raw_analysis, API_ERROR)
    THEN cache
    ELSE [cache EXCEPT !.analyses = DictPut(@, ipo_key, analysis_data)]

\* app.py:169
StoreAnalysis(cache, ipo_key, analysis_data) ==
    [cache EXCEPT !.analyses = DictPut(@, ipo_key, analysis_data)]

\* app.py:143, `if not html_content`
NoContent(html_content) == IsNone(html_content)

\* app.py:150 as `if aggregated_data is None`
NoDataNoneOnly(aggregated_data) == IsNone(aggregated_data)

\* app.py:150, `if not aggregated_data`: None or the empty string
NoData(aggregated_data) ==
    IsNone(aggregated_data) \/ ~Truthy(aggregated_data[1])

\* app.py:142-174, from the cache miss on
Pipeline(c, o, time, ipo_type, type_label, ipo, ipo_key, detail, llm) ==
    LET page_source == get_page_source_with_selenium(detail)
        o1 == [o EXCEPT !.renders = 1, !.render_ret = Some(page_source)]
    IN IF page_source.raised
       THEN [cache |-> c, obs |-> Fail([o1 EXCEPT !.raised = TRUE], 500, ERR_EXCEPTION)]
       ELSE IF NoContent(page_source.value)
       THEN [cache |-> c, obs |-> Fail(o1, 500, ERR_RENDER)]
       ELSE
       LET aggregated_data == parse_and_aggregate_data(page_source.value[1])
           o2 == [o1 EXCEPT !.extracts = 1, !.extract_ret = Some(aggregated_data)]
       IN IF NoData(aggregated_data)
          THEN [cache |-> c, obs |-> Fail(o2, 500, ERR_PARSE)]
          ELSE
          LET analysis_text == get_ipo_analysis_with_gemini(aggregated_data[1], llm)
              analysis_data ==
                  [ipo |-> ipo, ipo_type |-> ipo_type, type_label |-> type_label,
                   raw_analysis |-> analysis_text,
                   sections |-> parse_analysis_sections(analysis_text),
                   analyzed_at |-> time]
          IN [cache |-> StoreAnalysis(c, ipo_key, analysis_data),
              obs |-> [o2 EXCEPT !.summaries = 1, !.llm = Some(llm),
                                 !.body = Some(analysis_data)]]

\* app.py:104-181
analyze_ipo(cache, time, ipo_type, ipo_index, page, detail, llm) ==
    LET g == get_cached_ipos(cache, time, page)
        o == Obs("analyze", ipo_type, ipo_index, cache, time, g)
        c == g.cache
    IN IF g.raised
       THEN [cache |-> c, obs |-> Fail(o, 500, ERR_EXCEPTION)]
       ELSE IF ipo_type \notin {"current", "upcoming"}
       THEN [cache |-> c, obs |-> Fail(o, 400, ERR_TYPE)]
       ELSE
       LET ipos == IF ipo_type = "current" THEN g.value[1] ELSE g.value[2]
           type_label == IF ipo_type = "current" THEN "CURRENT" ELSE "UPCOMING"
       IN IF ipo_index >= Len(ipos)
          THEN [cache |-> c, obs |-> Fail(o, 400, ERR_RANGE)]
          ELSE
          LET ipo == ipos[ipo_index + 1]
              ipo_key == IpoKey(ipo_type, ipo_index, ipo)
              ok == [o EXCEPT !.key = Some(ipo_key)]
          IN IF IsCached(c, ipo_key)
             THEN [cache |-> c,
                   obs |-> [ok EXCEPT !.body = Some(c.analyses[ipo_key]),
                                      !.from_cache = TRUE]]
             ELSE Pipeline(c, ok, time, ipo_type, type_label, ipo, ipo_key, detail, llm)

----------------------------------------------------------------------------
(* The outside world of the server: dashboards, detail pages, LLM answers, *)
(* and the time that passes between requests.                              *)

NameA == <<"A">>
NameB == <<" ", "B">>
RowACurrent == Row(4, NameA, Anchor(<<"/a">>), <<"C", "u", "r", "r", "e", "n", "t">>)
RowBCurrent == Row(4, NameB, Anchor(<<"/b">>), CURRENT)
RowBUpcoming == Row(5, NameB, Anchor(<<"/b">>), <<"U", "P", "C", "O", "M", "I", "N", "G", " ">>)

ServerDashboards ==
    {<< >>, <<RowACurrent, RowBUpcoming>>, <<RowBCurrent, RowACurrent>>}

FailingPages ==
    {Page(FALSE, FALSE, FALSE, FALSE, FALSE, << >>),   \* the driver cannot start
     Page(TRUE, FALSE, FALSE, FALSE, FALSE, << >>),    \* wait timeout
     Page(TRUE, TRUE, FALSE, FALSE, FALSE, << >>),     \* heading missing
     Page(TRUE, TRUE, TRUE, FALSE, FALSE, << >>),      \* table missing
     Page(TRUE, TRUE, TRUE, TRUE, FALSE, << >>)}       \* exception in the scrape

ServerPages == FailingPages \cup {OkPage(rows) : rows \in ServerDashboards}

ServerDetails ==
    {Detail("error", FALSE, << >>), Detail("timeout", FALSE, << >>),
     Detail("ok", FALSE, << >>), Detail("ok", TRUE, <<" ">>),
     Detail("ok", TRUE, <<"d">>)}

ServerLlms ==
    {Llm(FALSE, <<"e">>),
     Llm(TRUE, <<"1", ".", "a", "\n", "x", " ">>),
     Llm(TRUE, <<"*", "*", "b", ":", "*", "*", "\n", "y", "\n", "1", ".", "\n", "z">>)}

IpoTypes == {"current", "upcoming", "bogus"}

Ticks == {10, FRESH_SECONDS, FRESH_SECONDS + 1, DAY_SECONDS}

----------------------------------------------------------------------------
(* The server, one request at a time.                                      *)

InitPure ==
    /\ s_in = None /\ s_out = None /\ p_in = << >> /\ p_out = None

InitConc ==
    /\ pc = << >> /\ loc = << >> /\ lastWriter = None

Init ==
    /\ ipo_cache = EmptyCache
    /\ now = 0
    /\ steps = 0
    /\ last = None
    /\ prev = None
    /\ dropped = {}
    /\ InitConc
    /\ InitPure

IsGoodAnalyze(o) == o.op = "analyze" /\ o.status = 200

\* The request's effect: the cache it leaves, and the observation kept of it.
Respond(r) ==
    /\ ipo_cache' = r.cache
    /\ last' = Some([r.obs EXCEPT !.was_dropped =
                        ~IsNone(r.obs.key) /\ r.obs.key[1] \in dropped])
    /\ dropped' = IF r.obs.op = "refresh" THEN DOMAIN r.obs.pre.analyses
                  ELSE IF ~IsNone(r.obs.key) THEN dropped \ {r.obs.key[1]}
                  ELSE dropped
    /\ prev' = IF r.obs.op = "refresh" THEN None
               ELSE IF ~IsNone(last) /\ IsGoodAnalyze(last[1]) THEN last
               ELSE prev
    /\ steps' = steps + 1
    /\ UNCHANGED <<now, concVars, pureVars>>

\* GET /api/ipos.  The dashboard is consulted only by a request that scrapes.
GetIpos ==
    /\ steps < MaxSteps
    /\ \E page \in ServerPages :
          LET r == get_ipos(ipo_cache, now, page)
          IN /\ r.obs.scrapes = 0 => page = CHOOSE q \in ServerPages : TRUE
             /\ Respond(r)

\* GET /api/refresh
Refresh ==
    /\ steps < MaxSteps
    /\ \E page \in ServerPages : Respond(refresh_ipos(ipo_cache, now, page))

\* GET /api/ipo/<ipo_type>/<int:ipo_index>/analyze.  The detail page and the
\* LLM are consulted only by a request that reaches them.
Analyze ==
    /\ steps < MaxSteps
    /\ \E ipo_type \in IpoTypes, ipo_index \in 0..MaxIndex :
          LET page0 == CHOOSE q \in ServerPages : TRUE
              detail0 == CHOOSE q \in ServerDetails : TRUE
              llm0 == CHOOSE q \in ServerLlms : TRUE
              pages == IF IsStale(ipo_cache, now) THEN ServerPages ELSE {page0}
          IN \E page \in pages :
                LET r0 == analyze_ipo(ipo_cache, now, ipo_type, ipo_index,
                                      page, detail0, llm0)
                IN IF r0.obs.renders = 0 THEN Respond(r0)
                   ELSE \E detail \in ServerDetails :
                           LET r1 == analyze_ipo(ipo_cache, now, ipo_type,
                                                 ipo_index, page, detail, llm0)
                           IN IF r1.obs.summaries = 0 THEN Respond(r1)
                              ELSE \E llm \in ServerLlms :
                                      Respond(analyze_ipo(ipo_cache, now, ipo_type,
                                                          ipo_index, page, detail, llm))

\* Time passes between two requests.
Tick ==
    /\ steps < MaxSteps
    /\ \E d \in Ticks : now' = now + d
    /\ steps' = steps + 1
    /\ UNCHANGED <<ipo_cache, last, prev, dropped, concVars, pureVars>>

Next == GetIpos \/ Refresh \/ Analyze \/ Tick

Spec == Init /\ [][Next]_vars

----------------------------------------------------------------------------
(* Properties of the server, stated for Spec.                              *)

HasLast == ~IsNone(last)
L == last[1]

\* The cache is older than the freshness window, by the clock.
Outdated(cache, time) ==
    \/ IsNone(cache.last_updated)
    \/ time - cache.last_updated[1] > FRESH_SECONDS

\* C1: a list-read (get_cached_ipos in GET /api/ipos or in analyze) re-scrapes
\* exactly once when last_updated is empty or more than 3600 seconds before
\* the current time, whatever the elapsed time, and never otherwise.
C1_RescrapeIffOutdated ==
    (HasLast /\ L.op \in {"ipos", "analyze"}) =>
        L.scrapes = IF Outdated(L.pre, L.time) THEN 1 ELSE 0

\* C2: of two consecutive successful analyze calls for the same key with no
\* refresh between them, the second runs no stage of the pipeline and returns
\* the record the first returned; the pipeline ran at most once in total.
C2_SecondAnalyzeIsMemoized ==
    (HasLast /\ ~IsNone(prev) /\ IsGoodAnalyze(L) /\ L.key = prev[1].key) =>
        /\ L.renders = 0 /\ L.extracts = 0 /\ L.summaries = 0
        /\ prev[1].renders + L.renders <= 1
        /\ prev[1].summaries + L.summaries <= 1
        /\ L.body = prev[1].body
        /\ L.body = Some(ipo_cache.analyses[L.key[1]])

\* Two successful analyze calls for one key, the first of which computed the
\* record, with a re-scrape of the dashboard in the second.
C2_Witness ==
    /\ HasLast /\ ~IsNone(prev) /\ IsGoodAnalyze(L) /\ L.key = prev[1].key
    /\ prev[1].summaries = 1
    /\ L.scrapes = 1

\* C3: a forced refresh leaves no key that analyses held before it, and the
\* next analyze call for such a key runs the pipeline (the renderer; and the
\* Summarizer when it succeeds) instead of answering from the cache.
C3_RefreshDiscardsAnalyses ==
    /\ (HasLast /\ L.op = "refresh") =>
          \A k \in DOMAIN L.pre.analyses : k \notin DOMAIN ipo_cache.analyses
    /\ (HasLast /\ L.op = "analyze" /\ L.was_dropped) =>
          /\ ~L.from_cache
          /\ L.renders = 1
          /\ L.status = 200 => L.summaries = 1

\* An analysis is recomputed for a key that a refresh discarded.
C3_Witness ==
    /\ HasLast /\ L.op = "analyze" /\ L.was_dropped /\ L.status = 200
    /\ L.summaries = 1

\* The lists a scrape outcome stands for: empty lists for a failed scrape.
OutcomeLists(ret) ==
    IF ~ret.raised /\ Len(ret.value) = 2 THEN ret.value ELSE <<<< >>, << >>>>

\* The request met no dashboard, or one for which the browser session started
\* (the failures left are those inside the scraper's try block).
BrowserStarted(o) == IsNone(o.page) \/ o.page[1].driver

\* C4: a list-read in a STALE cache, and every forced refresh, overwrites the
\* lists and last_updated with the outcome of the re-scrape, whatever it is,
\* and leaves the cache FRESH; last_updated is never empty after a request.
\* (Stated for the requests whose browser session started.)
C4_ReadLeavesCacheFresh ==
    (HasLast /\ BrowserStarted(L)) =>
        /\ ~IsNone(ipo_cache.last_updated)
        /\ ~Outdated(ipo_cache, L.time)
        /\ L.scrapes = 1 =>
              /\ ipo_cache.last_updated = Some(L.time)
              /\ <<ipo_cache.current_ipos, ipo_cache.upcoming_ipos>>
                     = OutcomeLists(L.scrape_ret[1])

\* C5: a scrape that fails as a whole (wait timeout, heading or table
\* missing, an exception in the scrape) returns two empty lists and raises
\* nothing, and get_cached_ipos, which unpacks two lists, raises nothing.
\* (Stated for the failures after the browser session started.)
C5_FailedScrapeReturnsTwoLists ==
    (HasLast /\ ~IsNone(L.page) /\ L.page[1] \in FailingPages /\ L.page[1].driver) =>
        /\ L.scrape_ret = Some(Returned(<<<< >>, << >>>>))
        /\ ~L.raised
        /\ L.status # 500

\* C6: an analyze request with an ipo_type other than "current" and
\* "upcoming" is answered 400, in every cache state and whatever the
\* re-scrape it triggers does.  (Stated for the requests whose browser
\* session started.)
C6_BadTypeIs400 ==
    (HasLast /\ L.op = "analyze" /\ L.ipo_type \notin {"current", "upcoming"}
        /\ BrowserStarted(L)) =>
        L.status = 400

\* The render returned no content / the extractor returned nothing or "".
RenderGaveNothing(o) == o.render_ret = Some(Returned(None))
ExtractGaveNothing(o) == o.extract_ret \in {Some(None), Some(Some(<< >>))}

\* C7: an analyze request that fails mid-pipeline (no content rendered, or an
\* empty or absent extract) answers 500 with the error of the failing stage,
\* does not call the Summarizer and leaves analyses as it was.
C7_PipelineFailureStoresNothing ==
    (HasLast /\ L.op = "analyze") =>
        /\ RenderGaveNothing(L) =>
              /\ L.status = 500 /\ L.error = ERR_RENDER
              /\ L.extracts = 0 /\ L.summaries = 0
              /\ ipo_cache.analyses = L.pre.analyses
        /\ ExtractGaveNothing(L) =>
              /\ L.status = 500 /\ L.error = ERR_PARSE
              /\ L.summaries = 0
              /\ ipo_cache.analyses = L.pre.analyses

\* The extractor returned the empty string while analyses holds an earlier
\* record, and the request answered 500.
C7_Witness ==
    /\ HasLast /\ L.op = "analyze" /\ L.extract_ret = Some(Some(<< >>))
    /\ L.status = 500
    /\ DOMAIN ipo_cache.analyses # {}

\* The record is what the Summarizer's swallowed failure leaves: its
\* raw_analysis is the error sentence followed by the exception's message.
IsErrorRecord(rec) == StartsWith(rec.raw_analysis, API_ERROR)

\* The keys under which a cache holds such a record.
ErrorKeys(cache) ==
    {k \in DOMAIN cache.analyses : IsErrorRecord(cache.analyses[k])}

\* The LLM call of the request raised.
SummarizerFailed(o) == o.summaries = 1 /\ ~o.llm[1].ok

\* C11: an analyze request whose LLM call raises answers success with the
\* error text as raw_analysis and stores that record under the analysis key;
\* every later analyze call that reaches the same key answers success with
\* the stored record and calls no stage of the pipeline; no request but a
\* forced refresh removes or changes the record, and a refresh removes it.
C11_SummarizerFailureIsMemoized ==
    HasLast =>
        /\ (L.op = "analyze" /\ SummarizerFailed(L)) =>
              /\ L.status = 200
              /\ L.body[1].raw_analysis = API_ERROR \o L.llm[1].text
              /\ L.key[1] \in ErrorKeys(ipo_cache)
              /\ ipo_cache.analyses[L.key[1]] = L.body[1]
        /\ (L.op = "analyze" /\ ~IsNone(L.key) /\ L.key[1] \in ErrorKeys(L.pre)) =>
              /\ L.status = 200
              /\ L.from_cache
              /\ L.renders = 0 /\ L.extracts = 0 /\ L.summaries = 0
              /\ L.body = Some(L.pre.analyses[L.key[1]])
        /\ L.op # "refresh" =>
              \A k \in ErrorKeys(L.pre) :
                  /\ k \in DOMAIN ipo_cache.analyses
                  /\ ipo_cache.analyses[k] = L.pre.analyses[k]
        /\ L.op = "refresh" => ErrorKeys(ipo_cache) = {}

\* An analyze request whose LLM call raised stored the error text; after more
\* than the freshness window a second analyze request re-scraped the
\* dashboard, reached the same key and answered with the stored error text.
C11_Witness ==
    /\ HasLast /\ ~IsNone(prev)
    /\ prev[1].op = "analyze" /\ SummarizerFailed(prev[1])
    /\ L.op = "analyze" /\ L.key = prev[1].key
    /\ L.scrapes = 1
    /\ L.from_cache /\ L.summaries = 0
    /\ IsErrorRecord(L.body[1])

----------------------------------------------------------------------------
(* The Dashboard Extractor on its own: scrape_ipo_dashboard applied to     *)
(* every page of up to MaxRows rows drawn from ScrapeRows.                 *)

ScrapeRows ==
    {Row(4, <<"A">>, Anchor(<<"/a">>), <<"C", "u", "r", "r", "e", "n", "t">>),
     Row(4, <<" ", "B">>, Anchor(<<"/b">>), <<"C", "U", "R", "R", "E", "N", "T", " ">>),
     Row(5, <<"B">>, Anchor(<<"/b">>), CURRENT),
     Row(4, <<"A">>, Anchor(<<"/a">>), UPCOMING),
     Row(5, <<"B", "\n">>, Anchor(<<"/b">>), <<" ", "U", "p", "c", "o", "m", "i", "n", "g">>),
     Row(4, <<"A">>, Anchor(<<"/a">>), <<"C", "l", "o", "s", "e", "d">>),
     Row(4, <<"A">>, Anchor(<<"/a">>), CURRENT \o <<"l", "y">>),
     Row(4, <<"B">>, Anchor(<<"/b">>), << >>),
     Row(3, <<"A">>, Anchor(<<"/a">>), CURRENT),
     Row(4, <<"B">>, NoAnchor, CURRENT),
     Row(4, <<"A">>, BareAnchor, UPCOMING)}

ScrapePages ==
    FailingPages \cup {OkPage(rows) : rows \in SeqsUpTo(ScrapeRows, MaxRows)}

InitServerIdle ==
    /\ ipo_cache = EmptyCache /\ now = 0 /\ steps = 0
    /\ last = None /\ prev = None /\ dropped = {}

InitScrape ==
    /\ s_in \in {Some(page) : page \in ScrapePages}
    /\ s_out = None
    /\ p_in = << >> /\ p_out = None
    /\ InitServerIdle
    /\ InitConc

Scrape ==
    /\ ~IsNone(s_in) /\ IsNone(s_out)
    /\ s_out' = Some(scrape_ipo_dashboard(s_in[1]))
    /\ UNCHANGED <<s_in, p_in, p_out, serverVars, concVars>>

NextScrape == Scrape

SpecScrape == InitScrape /\ [][NextScrape]_vars

\* Equality of two strings up to the case of their letters.
EqualIgnoringCase(a, b) ==
    /\ Len(a) = Len(b)
    /\ \A i \in 1..Len(a) : LowerChar(a[i]) = LowerChar(b[i])

\* A row that belongs in the list for `word`: at least 4 cells, the status
\* (the trimmed text of the 4th) equal to `word` up to case, and an anchor
\* with an href in the first cell.
Qualifies(cells, word) ==
    /\ Len(cells) >= 4
    /\ EqualIgnoringCase(Strip(cells[4].text), word)
    /\ cells[1].a.found /\ cells[1].a.has_href

\* The positions of the qualifying rows, and the k-th smallest of them.
QualifyingAt(rows, word) == {i \in 1..Len(rows) : Qualifies(rows[i], word)}
KthOf(S, k) == CHOOSE i \in S : Cardinality({j \in S : j < i}) = k - 1

\* The listings of the qualifying rows, in the order of the rows.
ListingsOf(rows, word) ==
    LET at == QualifyingAt(rows, word)
    IN [k \in 1..Cardinality(at) |->
           LET cells == rows[KthOf(at, k)]
           IN [name |-> Strip(cells[1].text),
               url |-> BASE_URL \o cells[1].a.href]]

ScrapedOk == ~IsNone(s_out) /\ s_in[1] \notin FailingPages

\* C8: for every sequence of table rows the extractor returns, as current
\* and as upcoming, exactly the qualifying rows of that status in row order;
\* every other row is in neither list, and no row is in both.
C8_ListsAreQualifyingRowsInOrder ==
    ScrapedOk =>
        /\ s_out[1] = Returned(<<ListingsOf(s_in[1].rows, CURRENT),
                                 ListingsOf(s_in[1].rows, UPCOMING)>>)
        /\ QualifyingAt(s_in[1].rows, CURRENT)
               \cap QualifyingAt(s_in[1].rows, UPCOMING) = {}

\* Two different current rows around a skipped row, in row order.
C8_Witness ==
    /\ ScrapedOk
    /\ Len(s_in[1].rows) = 3
    /\ QualifyingAt(s_in[1].rows, CURRENT) = {1, 3}
    /\ Len(s_out[1].value[1]) = 2
    /\ s_out[1].value[1][1] # s_out[1].value[1][2]
    /\ s_out[1].value[2] = << >>

----------------------------------------------------------------------------
(* The Section Parser on its own: parse_analysis_sections applied to the   *)
(* text of every sequence of up to MaxLines lines drawn from ParseLines.   *)

ParseLines ==
    {<<"*", "*", "a", ":", "*", "*">>,            \* **a:**
     <<"1", ".", "a">>,                           \* 1.a
     <<" ", "2", ".", " ", "b", ":">>,            \*  2. b:
     <<"*", "*", "1", ".", "b", ":", "*", "*">>,  \* **1.b:**
     <<"1", ".">>,                                \* 1.
     <<"*", "*", ":", "*", "*">>,                 \* **:**
     <<"a">>,
     <<" ", "b", " ">>,
     <<"7", ".", "a">>,                           \* not a header: digit 7
     <<"*", "a", ":">>,                           \* not a header
     << >>,
     <<" ">>}

InitParse ==
    /\ p_in \in SeqsUpTo(ParseLines, MaxLines)
    /\ p_out = None
    /\ s_in = None /\ s_out = None
    /\ InitServerIdle
    /\ InitConc

Parse ==
    /\ IsNone(p_out)
    /\ p_out' = Some(parse_analysis_sections(JoinLines(p_in)))
    /\ UNCHANGED <<p_in, s_in, s_out, serverVars, concVars>>

NextParse == Parse

SpecParse == InitParse /\ [][NextParse]_vars

\* The claim's reading of the input, line by line.
Trimmed(i) == Strip(p_in[i])
Blank(i) == Trimmed(i) = << >>
Marker(i) ==
    /\ ~Blank(i)
    /\ \/ /\ Len(Trimmed(i)) >= 3
          /\ SubSeq(Trimmed(i), 1, 2) = <<"*", "*">>
          /\ SubSeq(Trimmed(i), Len(Trimmed(i)) - 2, Len(Trimmed(i))) = <<":", "*", "*">>
       \/ /\ Len(Trimmed(i)) >= 2
          /\ Trimmed(i)[1] \in {"1", "2", "3", "4", "5", "6"}
          /\ Trimmed(i)[2] = "."
Markers == {i \in 1..Len(p_in) : Marker(i)}

\* The title of marker line i: emphasis markers and colons removed, then a
\* leading digit-period token removed.
Unmarked(i) == Strip(SelectSeq(Trimmed(i), LAMBDA c : c \notin {"*", ":"}))
TitleOf(i) ==
    IF Len(Unmarked(i)) >= 2 /\ Unmarked(i)[1] \in {"1", "2", "3", "4", "5", "6"}
          /\ Unmarked(i)[2] = "."
    THEN Strip(SubSeq(Unmarked(i), 3, Len(Unmarked(i))))
    ELSE Unmarked(i)

\* The body of marker line i: the trimmed non-blank non-marker lines after
\* it, up to the next marker or the end, joined by newlines.
BodyLinesAt(i) ==
    {j \in (i + 1)..Len(p_in) :
        /\ ~Blank(j) /\ ~Marker(j)
        /\ \A m \in Markers : ~(i < m /\ m < j)}
BodyOf(i) ==
    LET at == BodyLinesAt(i)
    IN JoinLines([k \in 1..Cardinality(at) |-> Trimmed(KthOf(at, k))])

\* The mapping the claim describes over the marker lines M: one section per
\* title, the last marker with a title giving its body.
SectionsOver(M) ==
    [t \in {TitleOf(i) : i \in M} |->
        BodyOf(CHOOSE i \in M :
                  /\ TitleOf(i) = t
                  /\ \A j \in M : TitleOf(j) = t => j <= i)]

SameDict(d, e) == DOMAIN d = DOMAIN e /\ \A k \in DOMAIN d : d[k] = e[k]

\* C9: for every sequence of lines the parser returns the mapping in which
\* each marker line opens a section under its title with the lines up to the
\* next marker as body, lines before the first marker and blank lines being
\* dropped and a repeated title replaced by its later section.
C9_EveryMarkerOpensASection ==
    ~IsNone(p_out) => SameDict(p_out[1], SectionsOver(Markers))

\* The same mapping when no marker line has an empty title: the parser
\* agrees with it.
ParsedAsDescribedForNamedSections ==
    (~IsNone(p_out) /\ \A i \in Markers : TitleOf(i) # << >>) =>
        SameDict(p_out[1], SectionsOver(Markers))

\* What the parser does in general: a marker line with an empty title opens
\* no section, and the lines after it up to the next marker are dropped.
ParsedWithoutUntitledSections ==
    ~IsNone(p_out) =>
        SameDict(p_out[1], SectionsOver({i \in Markers : TitleOf(i) # << >>}))

----------------------------------------------------------------------------
(* Overlapping list-reads: NumRequests threads of the threaded server run  *)
(* get_cached_ipos on the shared ipo_cache, one statement at a time, with  *)
(* no lock.  They start in a STALE cache.                                  *)

Requests == 1..NumRequests

ConcPages ==
    {Page(TRUE, FALSE, FALSE, FALSE, FALSE, << >>)}
        \cup {OkPage(rows) : rows \in ServerDashboards}

\* The cache after a first list-read at time 0 that found RowACurrent and
\* RowBUpcoming on the dashboard.
FilledCache ==
    Store(EmptyCache,
          scrape_ipo_dashboard(OkPage(<<RowACurrent, RowBUpcoming>>)).value, 0)

InitConcurrent ==
    /\ ipo_cache \in {EmptyCache, FilledCache}
    /\ now = FRESH_SECONDS + 1
    /\ steps = 0
    /\ pc = [r \in Requests |-> "begin"]
    /\ loc = [r \in Requests |->
                 [current_time |-> 0, value |-> << >>, scraped |-> FALSE]]
    /\ lastWriter = None
    /\ last = None /\ prev = None /\ dropped = {}
    /\ InitPure

Goto(r, label) == pc' = [pc EXCEPT ![r] = label]

ConcFrame == UNCHANGED <<now, steps, last, prev, dropped, pureVars>>

\* app.py:29
Begin(r) ==
    /\ pc[r] = "begin"
    /\ loc' = [loc EXCEPT ![r].current_time = now]
    /\ Goto(r, "check_empty")
    /\ UNCHANGED <<ipo_cache, lastWriter>>
    /\ ConcFrame

\* app.py:32, `not ipo_cache['last_updated']`
CheckEmpty(r) ==
    /\ pc[r] = "check_empty"
    /\ Goto(r, IF IsNone(ipo_cache.last_updated) THEN "scrape" ELSE "check_age")
    /\ UNCHANGED <<ipo_cache, loc, lastWriter>>
    /\ ConcFrame

\* app.py:33, the second read of ipo_cache['last_updated']
CheckAge(r) ==
    /\ pc[r] = "check_age"
    /\ Goto(r, IF IsStale(ipo_cache, loc[r].current_time) THEN "scrape" ELSE "return")
    /\ UNCHANGED <<ipo_cache, loc, lastWriter>>
    /\ ConcFrame

\* app.py:36, the scrape and the unpacking of what it returns
ScrapeStep(r) ==
    /\ pc[r] = "scrape"
    /\ \E page \in ConcPages :
          LET ret == scrape_ipo_dashboard(page)
          IN IF ret.raised \/ ~Unpacks(ret.value)
             THEN /\ Goto(r, "raised")
                  /\ loc' = loc
             ELSE /\ Goto(r, "write_current")
                  /\ loc' = [loc EXCEPT ![r].value = ret.value, ![r].scraped = TRUE]
    /\ UNCHANGED <<ipo_cache, lastWriter>>
    /\ ConcFrame

\* app.py:37
WriteCurrentStep(r) ==
    /\ pc[r] = "write_current"
    /\ ipo_cache' = WriteCurrent(ipo_cache, loc[r].value[1])
    /\ Goto(r, "write_upcoming")
    /\ UNCHANGED <<loc, lastWriter>>
    /\ ConcFrame

\* app.py:38
WriteUpcomingStep(r) ==
    /\ pc[r] = "write_upcoming"
    /\ ipo_cache' = WriteUpcoming(ipo_cache, loc[r].value[2])
    /\ Goto(r, "write_time")
    /\ UNCHANGED <<loc, lastWriter>>
    /\ ConcFrame

\* app.py:39
WriteTimeStep(r) ==
    /\ pc[r] = "write_time"
    /\ ipo_cache' = WriteTime(ipo_cache, loc[r].current_time)
    /\ lastWriter' = Some(r)
    /\ Goto(r, "return")
    /\ UNCHANGED loc
    /\ ConcFrame

\* app.py:41
Return(r) ==
    /\ pc[r] = "return"
    /\ Goto(r, "done")
    /\ UNCHANGED <<ipo_cache, loc, lastWriter>>
    /\ ConcFrame

\* Time passes while the requests run.
ConcTick ==
    /\ steps < MaxConcTicks
    /\ \E r \in Requests : pc[r] \notin {"done", "raised"}
    /\ now' = now + 10
    /\ steps' = steps + 1
    /\ UNCHANGED <<ipo_cache, last, prev, dropped, concVars, pureVars>>

NextConcurrent ==
    \/ \E r \in Requests :
          \/ Begin(r) \/ CheckEmpty(r) \/ CheckAge(r) \/ ScrapeStep(r)
          \/ WriteCurrentStep(r) \/ WriteUpcomingStep(r) \/ WriteTimeStep(r)
          \/ Return(r)
    \/ ConcTick

SpecConc == InitConcurrent /\ [][NextConcurrent]_vars

RunsConcurrent == pc # << >>
AllFinished == RunsConcurrent /\ \A r \in Requests : pc[r] \in {"done", "raised"}
Writers == {r \in Requests : pc[r] = "done" /\ loc[r].scraped}

\* C10 as stated: once the overlapping list-reads have finished, the three
\* fields of the cache are the ones written by one single request: they
\* never come from different requests' scrapes.  (Read in the claim's
\* favour: by some one request that wrote, whichever it is.)
C10_CacheFromOneRequest ==
    (AllFinished /\ Writers # {}) =>
        \E r \in Writers :
            /\ ipo_cache.current_ipos = loc[r].value[1]
            /\ ipo_cache.upcoming_ipos = loc[r].value[2]
            /\ ipo_cache.last_updated = Some(loc[r].current_time)

\* C10 as amended: there is no mutual exclusion, and the last writer wins
\* field by field.  Once the requests have finished, last_updated is the
\* time of the request that wrote it last, and current_ipos and upcoming_ipos
\* are each a list scraped by one of the requests that wrote, not
\* necessarily the same one.
C10_LastWriterWinsPerField ==
    (AllFinished /\ ~IsNone(lastWriter)) =>
        /\ lastWriter[1] \in Writers
        /\ ipo_cache.last_updated = Some(loc[lastWriter[1]].current_time)
        /\ \E r \in Writers : ipo_cache.current_ipos = loc[r].value[1]
        /\ \E r \in Writers : ipo_cache.upcoming_ipos = loc[r].value[2]

\* Two requests both re-scraped, with different results, and the cache is
\* left with the current list of one and the upcoming list of the other.
C10_Witness ==
    /\ AllFinished
    /\ \E r1, r2 \in Writers :
          /\ r1 # r2
          /\ loc[r1].value[1] # loc[r2].value[1]
          /\ loc[r1].value[2] # loc[r2].value[2]
          /\ ipo_cache.current_ipos = loc[r1].value[1]
          /\ ipo_cache.upcoming_ipos = loc[r2].value[2]

====
